---------------------------- MODULE Spec2Model ----------------------------
(***************************************************************************)
(* State-machine model of parsers/MN.py: the Mongolian grid parser.        *)
(*                                                                         *)
(* One call of parse_json, query, fetch_production or fetch_consumption is *)
(* followed statement by statement.  Python values are tagged records:     *)
(*   [t |-> "null"]                 JSON null / Python None                *)
(*   [t |-> "num", n |-> i]         a JSON number                          *)
(*   [t |-> "str", s |-> <<..>>]    a JSON string, one character per item  *)
(*   [t |-> "float", f |-> i]       a Python float                         *)
(*   [t |-> "datetime", ...]        a zone-aware datetime                  *)
(* Numbers are fixed-point integers counting units of 10^-FracDigits.  The *)
(* numeric inputs are multiples of 1/16, which binary floating point holds *)
(* exactly, so float subtraction and round(_, 2) on them are exact and the *)
(* fixed-point arithmetic below is the arithmetic Python performs.         *)
(***************************************************************************)
EXTENDS Integers, Sequences, FiniteSets, TLC

VARIABLES
    pc,               \* position of the running call ("idle": no call)
    entry,            \* the function the caller invoked
    target_datetime,  \* argument of fetch_production / fetch_consumption
    target_response,  \* local of query: the Response of session.get
    web_json,         \* the decoded payload handed to parse_json
    query_data,       \* local dict of parse_json, later of the fetch function
    result,           \* value returned to the caller
    error,            \* exception raised to the caller
    trace,            \* the events of the running call, in order
    first,            \* the caller's record of its first parse_json call
    repeats           \* how often parse_json was called again on this web_json

vars == <<pc, entry, target_datetime, target_response, web_json, query_data,
          result, error, trace, first, repeats>>

---------------------------------------------------------------------------
(* Bounds of the model.                                                    *)

\* Each numeric field is offered MaxStep + 1 consecutive multiples of 1/16.
MaxStep == 1
\* parse_json is called again on the same mapping at most MaxRepeats times.
MaxRepeats == 1
\* Fixed-point resolution: one unit is 10^-FracDigits.
FracDigits == 4

---------------------------------------------------------------------------
(* Python values.                                                          *)

None == [t |-> "null"]
Num(n) == [t |-> "num", n |-> n]
Str(s) == [t |-> "str", s |-> s]
Float(f) == [t |-> "float", f |-> f]

RECURSIVE Pow10(_)
Pow10(k) == IF k = 0 THEN 1 ELSE 10 * Pow10(k - 1)

\* Units per 1.0 and per 1/16.
Scale == Pow10(FracDigits)
Sixteenth == Scale \div 16

Abs(i) == IF i < 0 THEN 0 - i ELSE i

---------------------------------------------------------------------------
(* Module constants of MN.py.                                              *)

NDC_GENERATION == "https://disnews.energy.mn/test/convert.php"
TZ == "Asia/Ulaanbaatar"
SOURCE == "https://ndc.energy.mn/"

\* JSON_QUERY_TO_SRC.items(), in insertion order.
QueryKeys == <<"time", "consumptionMW", "solarMW", "windMW", "importMW",
               "temperatureC">>
JSON_QUERY_TO_SRC ==
    [q \in {QueryKeys[i] : i \in 1..Len(QueryKeys)} |->
        CASE q = "time" -> "date"
          [] q = "consumptionMW" -> "syssum"
          [] q = "solarMW" -> "sumnar"
          [] q = "windMW" -> "sums"
          [] q = "importMW" -> "energyimport"
          [] q = "temperatureC" -> "t"]

\* set(JSON_QUERY_TO_SRC.values())
ExpectedKeys == {JSON_QUERY_TO_SRC[q] : q \in DOMAIN JSON_QUERY_TO_SRC}

---------------------------------------------------------------------------
(* float(x): a number converts as it is; a string is stripped of blanks    *)
(* and read as [sign] digits [. digits] with at least one digit.  (Python  *)
(* also reads exponents, inf, nan and underscores; no input below uses     *)
(* them.)                                                                  *)

Digits == {"0", "1", "2", "3", "4", "5", "6", "7", "8", "9"}
DigitVal(c) ==
    CASE c = "0" -> 0 [] c = "1" -> 1 [] c = "2" -> 2 [] c = "3" -> 3
      [] c = "4" -> 4 [] c = "5" -> 5 [] c = "6" -> 6 [] c = "7" -> 7
      [] c = "8" -> 8 [] c = "9" -> 9

AllDigits(s) == \A i \in 1..Len(s) : s[i] \in Digits

RECURSIVE DigitsVal(_)
DigitsVal(s) ==
    IF s = <<>> THEN 0
    ELSE 10 * DigitsVal(SubSeq(s, 1, Len(s) - 1)) + DigitVal(s[Len(s)])

RECURSIVE Strip(_)
Strip(s) ==
    IF s # <<>> /\ Head(s) = " " THEN Strip(Tail(s))
    ELSE IF s # <<>> /\ s[Len(s)] = " " THEN Strip(SubSeq(s, 1, Len(s) - 1))
    ELSE s

\* Position of the first "." of s, or Len(s) + 1 when there is none.
DotPos(s) ==
    IF \E i \in 1..Len(s) : s[i] = "."
    THEN CHOOSE i \in 1..Len(s) :
            s[i] = "." /\ \A j \in 1..(i - 1) : s[j] # "."
    ELSE Len(s) + 1

StrToFloat(s) ==
    LET b == Strip(s)
        signed == b # <<>> /\ Head(b) \in {"+", "-"}
        neg == b # <<>> /\ Head(b) = "-"
        u == IF signed THEN Tail(b) ELSE b
        d == DotPos(u)
        ip == SubSeq(u, 1, d - 1)
        fp == SubSeq(u, d + 1, Len(u))
        wellformed == /\ AllDigits(ip)
                      /\ AllDigits(fp)
                      /\ Len(ip) + Len(fp) > 0
                      /\ Len(fp) <= FracDigits
        mag == DigitsVal(ip) * Scale + DigitsVal(fp) * Pow10(FracDigits - Len(fp))
    IN  IF wellformed
        THEN [ok |-> TRUE, v |-> Float(IF neg THEN 0 - mag ELSE mag)]
        ELSE [ok |-> FALSE, err |-> "ValueError"]

\* As ToFloat, with int() in the place of float().
ToFloatAsInt(x) ==
    CASE x.t = "num" ->
            [ok |-> TRUE,
             v |-> Float(IF x.n < 0 THEN 0 - (((0 - x.n) \div Scale) * Scale)
                         ELSE (x.n \div Scale) * Scale)]
      [] x.t = "str" ->
            LET r == StrToFloat(x.s)
            IN  IF r.ok /\ r.v.f % Scale = 0 THEN r
                ELSE [ok |-> FALSE, err |-> "ValueError"]
      [] OTHER -> [ok |-> FALSE, err |-> "TypeError"]

ToFloat(x) ==
    CASE x.t = "num" -> [ok |-> TRUE, v |-> Float(x.n)]
      [] x.t = "str" -> StrToFloat(x.s)
      [] OTHER -> [ok |-> FALSE, err |-> "TypeError"]

---------------------------------------------------------------------------
(* arrow.get(s, "YYYY-MM-DD HH:mm:ss", tzinfo=TZ).datetime: the string has *)
(* to match the format, and the fields have to name a real date and time.  *)

TimeFormat == <<"d", "d", "d", "d", "-", "d", "d", "-", "d", "d", " ",
                "d", "d", ":", "d", "d", ":", "d", "d">>

MatchesFormat(s) ==
    /\ Len(s) = Len(TimeFormat)
    /\ \A i \in 1..Len(TimeFormat) :
          IF TimeFormat[i] = "d" THEN s[i] \in Digits ELSE s[i] = TimeFormat[i]

IsLeap(y) == (y % 4 = 0 /\ y % 100 # 0) \/ y % 400 = 0
DaysIn(y, m) ==
    IF m = 2 THEN (IF IsLeap(y) THEN 29 ELSE 28)
    ELSE IF m \in {4, 6, 9, 11} THEN 30 ELSE 31

ParseTime(x) ==
    IF x.t # "str" THEN [ok |-> FALSE, err |-> "TypeError"]
    ELSE IF ~MatchesFormat(x.s) THEN [ok |-> FALSE, err |-> "ParserError"]
    ELSE
      LET s == x.s
          year == DigitsVal(SubSeq(s, 1, 4))
          month == DigitsVal(SubSeq(s, 6, 7))
          day == DigitsVal(SubSeq(s, 9, 10))
          hour == DigitsVal(SubSeq(s, 12, 13))
          minute == DigitsVal(SubSeq(s, 15, 16))
          second == DigitsVal(SubSeq(s, 18, 19))
      IN  IF /\ year >= 1
             /\ month \in 1..12
             /\ day \in 1..DaysIn(year, month)
             /\ hour \in 0..23
             /\ minute \in 0..59
             /\ second \in 0..59
          THEN [ok |-> TRUE,
                v |-> [t |-> "datetime", year |-> year, month |-> month,
                       day |-> day, hour |-> hour, minute |-> minute,
                       second |-> second, tzinfo |-> TZ]]
          ELSE [ok |-> FALSE, err |-> "ValueError"]

---------------------------------------------------------------------------
(* round(x, 2): the nearest multiple of 10^-NDIGITS, a tie going to the    *)
(* even one (Python rounds the exact value of the float half to even).     *)

NDIGITS == 2
Hundredth == Pow10(FracDigits - NDIGITS)

\* As Round, cutting the digits off instead of rounding them.
RoundDown(x) == (x \div Hundredth) * Hundredth

Round(x) ==
    LET q == x \div Hundredth
        r == x % Hundredth
    IN  IF 2 * r < Hundredth THEN q * Hundredth
        ELSE IF 2 * r > Hundredth THEN (q + 1) * Hundredth
        ELSE IF q % 2 = 0 THEN q * Hundredth
        ELSE (q + 1) * Hundredth

---------------------------------------------------------------------------
(* What the caller and the remote endpoint can supply.                     *)

Chars(str) ==
    CASE str = "2023-06-27 18:00:00" ->
            <<"2", "0", "2", "3", "-", "0", "6", "-", "2", "7", " ",
              "1", "8", ":", "0", "0", ":", "0", "0">>
      [] str = "2023-02-30 18:00:00" ->
            <<"2", "0", "2", "3", "-", "0", "2", "-", "3", "0", " ",
              "1", "8", ":", "0", "0", ":", "0", "0">>
      [] str = "27.06.2023" ->
            <<"2", "7", ".", "0", "6", ".", "2", "0", "2", "3">>
      [] str = "869.5" -> <<"8", "6", "9", ".", "5">>
      [] str = "0" -> <<"0">>
      [] str = "n/a" -> <<"n", "/", "a">>
      [] str = "42.25" -> <<"4", "2", ".", "2", "5">>
      [] str = "119.0625" -> <<"1", "1", "9", ".", "0", "6", "2", "5">>
      [] str = "-3.125" -> <<"-", "3", ".", "1", "2", "5">>
      [] str = " 17" -> <<" ", "1", "7">>
      [] str = "17,5" -> <<"1", "7", ",", "5">>
      [] str = "x" -> <<"x">>

S(str) == Str(Chars(str))

\* k/16 as a JSON number.
Sixteenths(k) == Num(k * Sixteenth)
Steps(base) == {Sixteenths(base + i) : i \in 0..MaxStep}

\* The values a well-keyed payload may carry under each source key.
Pool(k) ==
    CASE k = "date" -> {S("2023-06-27 18:00:00"), S("2023-02-30 18:00:00"),
                        S("27.06.2023")}
      [] k = "syssum" -> Steps(13910) \cup {S("869.5"), S("0"), S("n/a")}
      [] k = "sumnar" -> Steps(677) \cup {S("42.25")}
      [] k = "sums" -> Steps(1916) \cup {S("119.0625")}
      [] k = "energyimport" -> Steps(793) \cup {S("-3.125")}
      [] k = "t" -> {S(" 17"), Sixteenths(0 - 56), S("17,5")}

\* The value a key carries in the payloads whose shape varies.
Default(k) ==
    CASE k = "date" -> S("2023-06-27 18:00:00")
      [] k = "syssum" -> S("869.5")
      [] k = "sumnar" -> S("42.25")
      [] k = "sums" -> S("119.0625")
      [] k = "energyimport" -> S("-3.125")
      [] k = "t" -> S(" 17")
      [] OTHER -> S("x")

AllKeys == ExpectedKeys \cup {"extra"}

\* Any key present or absent, any present value null or its default.
ShapePayloads ==
    {[k \in K |-> IF k \in N THEN None ELSE Default(k)] :
        <<K, N>> \in {kn \in (SUBSET AllKeys) \X (SUBSET AllKeys) :
                        kn[2] \subseteq kn[1]}}

\* The six expected keys, every value from the key's pool.
ValuePayloads ==
    {[k \in ExpectedKeys |->
        CASE k = "date" -> d [] k = "syssum" -> c [] k = "sumnar" -> s
          [] k = "sums" -> w [] k = "energyimport" -> i [] k = "t" -> t] :
        d \in Pool("date"), c \in Pool("syssum"), s \in Pool("sumnar"),
        w \in Pool("sums"), i \in Pool("energyimport"), t \in Pool("t")}

Payloads == ShapePayloads \cup ValuePayloads

Dict(d) == [t |-> "dict", d |-> d]
JsonList == [t |-> "list"]

\* Response.text: a JSON document (an object or an array) or no JSON at all.
Bodies ==
    {[valid |-> TRUE, json |-> Dict(p)] : p \in Payloads}
        \cup {[valid |-> TRUE, json |-> JsonList], [valid |-> FALSE]}

StatusCodes == {200, 304, 404, 500}
Responses == [url : {NDC_GENERATION}, status_code : StatusCodes, text : Bodies]

TargetTimes ==
    {None,
     [t |-> "datetime", year |-> 2023, month |-> 6, day |-> 26, hour |-> 0,
      minute |-> 0, second |-> 0, tzinfo |-> "UTC"]}

---------------------------------------------------------------------------
(* The state machine.                                                      *)

\* A local that holds nothing yet; a call that returned or raised nothing.
Unset == [t |-> "unset"]

Exception(type) == [type |-> type]
ParserException(message) == [type |-> "ParserException", message |-> message]

Init ==
    /\ pc = "idle"
    /\ entry = "none"
    /\ target_datetime = None
    /\ target_response = Unset
    /\ web_json = Unset
    /\ query_data = Unset
    /\ result = Unset
    /\ error = Unset
    /\ trace = <<>>
    /\ first = Unset
    /\ repeats = 0

\* raise e: the exception leaves every frame of the call.
Raise(e) ==
    /\ pc' = "done"
    /\ error' = e
    /\ result' = Unset

\* return v to the caller.
ReturnValue(v) ==
    /\ pc' = "done"
    /\ result' = v
    /\ error' = Unset

\* The caller invokes parse_json(web_json) on a mapping of its own, and keeps
\* a copy of what it passed.
CallParse ==
    /\ pc = "idle"
    /\ \E p \in Payloads :
          /\ web_json' = Dict(p)
          /\ first' = [passed |-> Dict(p), outcome |-> Unset]
    /\ entry' = "parse_json"
    /\ pc' = "parse_keys"
    /\ UNCHANGED <<target_datetime, target_response, query_data, result,
                   error, trace, repeats>>

\* The caller invokes parse_json once more on the mapping it still holds.
CallParseAgain ==
    /\ pc = "done"
    /\ entry = "parse_json"
    /\ repeats < MaxRepeats
    /\ first' = IF repeats = 0
                THEN [first EXCEPT !.outcome = [result |-> result,
                                                error |-> error]]
                ELSE first
    /\ repeats' = repeats + 1
    /\ pc' = "parse_keys"
    /\ query_data' = Unset
    /\ result' = Unset
    /\ error' = Unset
    /\ trace' = <<>>
    /\ UNCHANGED <<entry, target_datetime, target_response, web_json>>

\* The caller invokes query(session).
CallQuery ==
    /\ pc = "idle"
    /\ entry' = "query"
    /\ pc' = "query_get"
    /\ UNCHANGED <<target_datetime, target_response, web_json, query_data,
                   result, error, trace, first, repeats>>

\* The caller invokes fetch_production or fetch_consumption.
CallFetch ==
    /\ pc = "idle"
    /\ \E fn \in {"fetch_production", "fetch_consumption"} : entry' = fn
    /\ \E td \in TargetTimes : target_datetime' = td
    /\ pc' = "fetch_target"
    /\ UNCHANGED <<target_response, web_json, query_data, result, error,
                   trace, first, repeats>>

\* As Truthy, with the test inverted.
TruthyInverted(x) == x = None

\* bool(target_datetime): None is false, a datetime is true.
Truthy(x) == x # None

\* As FetchCheckTarget, with the request sent before the test.
FetchCheckTargetAfterGet ==
    /\ pc = "fetch_target"
    /\ \E r \in Responses : target_response' = r
    /\ trace' = Append(trace, "session.get")
    /\ IF Truthy(target_datetime)
       THEN Raise(Exception("NotImplementedError"))
       ELSE pc' = "query_ok" /\ UNCHANGED <<result, error>>
    /\ UNCHANGED <<entry, target_datetime, web_json, query_data, first,
                   repeats>>

\* if target_datetime: raise NotImplementedError(...)
FetchCheckTarget ==
    /\ pc = "fetch_target"
    /\ IF Truthy(target_datetime)
       THEN Raise(Exception("NotImplementedError"))
       ELSE pc' = "query_get" /\ UNCHANGED <<result, error>>
    /\ UNCHANGED <<entry, target_datetime, target_response, web_json,
                   query_data, trace, first, repeats>>

\* target_response = session.get(NDC_GENERATION)
SessionGet ==
    /\ pc = "query_get"
    /\ \E r \in Responses : target_response' = r
    /\ trace' = Append(trace, "session.get")
    /\ pc' = "query_ok"
    /\ UNCHANGED <<entry, target_datetime, web_json, query_data, result,
                   error, first, repeats>>

\* As Ok, with only the server errors failing.
OkBelow500(response) == response.status_code < 500

\* Response.ok: the status is below 400.
Ok(response) == response.status_code < 400

\* As QueryCheckOk, with a failed request sent once more.
QueryCheckOkRetry ==
    /\ pc = "query_ok"
    /\ IF ~Ok(target_response)
       THEN IF Len(trace) < 2
            THEN pc' = "query_get" /\ UNCHANGED <<result, error>>
            ELSE Raise([type |-> "ParserException",
                        message |-> "Data request did not succeed"])
       ELSE pc' = "query_loads" /\ UNCHANGED <<result, error>>
    /\ UNCHANGED <<entry, target_datetime, target_response, web_json,
                   query_data, trace, first, repeats>>

\* if not target_response.ok: raise ParserException(...)
QueryCheckOk ==
    /\ pc = "query_ok"
    /\ IF ~Ok(target_response)
       THEN Raise(ParserException("Data request did not succeed"))
       ELSE pc' = "query_loads" /\ UNCHANGED <<result, error>>
    /\ UNCHANGED <<entry, target_datetime, target_response, web_json,
                   query_data, trace, first, repeats>>

\* response_json = json.loads(target_response.text); parse_json(response_json)
QueryLoads ==
    /\ pc = "query_loads"
    /\ trace' = Append(trace, "json.loads")
    /\ IF ~target_response.text.valid
       THEN Raise(Exception("JSONDecodeError")) /\ UNCHANGED web_json
       ELSE /\ web_json' = target_response.text.json
            /\ pc' = "parse_keys"
            /\ UNCHANGED <<result, error>>
    /\ UNCHANGED <<entry, target_datetime, target_response, query_data,
                   first, repeats>>

\* As KeysDiffer, looking for missing keys only.
KeysMissing(json) == ~(ExpectedKeys \subseteq DOMAIN json.d)

\* set(JSON_QUERY_TO_SRC.values()) != set(web_json.keys())
KeysDiffer(json) == ExpectedKeys # DOMAIN json.d

\* As ParseCheckKeys, with the null check in front of the key check.
ParseCheckNullFirst ==
    /\ pc = "parse_keys"
    /\ trace' = trace \o <<"check_null", "check_keys">>
    /\ IF web_json.t # "dict"
       THEN Raise(Exception("AttributeError"))
       ELSE IF \E k \in DOMAIN web_json.d : web_json.d[k] = None
       THEN Raise(ParserException("values contain null"))
       ELSE IF KeysDiffer(web_json)
       THEN Raise(ParserException("keys do not match expected keys"))
       ELSE pc' = "parse_null" /\ UNCHANGED <<result, error>>
    /\ UNCHANGED <<entry, target_datetime, target_response, web_json,
                   query_data, first, repeats>>

\* The first validation of parse_json; a list has no keys().
ParseCheckKeys ==
    /\ pc = "parse_keys"
    /\ trace' = Append(trace, "check_keys")
    /\ IF web_json.t # "dict"
       THEN Raise(Exception("AttributeError"))
       ELSE IF KeysDiffer(web_json)
       THEN Raise(ParserException("keys do not match expected keys"))
       ELSE pc' = "parse_null" /\ UNCHANGED <<result, error>>
    /\ UNCHANGED <<entry, target_datetime, target_response, web_json,
                   query_data, first, repeats>>

\* None in web_json.values()
HasNull(json) == \E k \in DOMAIN json.d : json.d[k] = None

\* The second validation of parse_json; then query_data = dict().
ParseCheckNull ==
    /\ pc = "parse_null"
    /\ trace' = Append(trace, "check_null")
    /\ IF HasNull(web_json)
       THEN Raise(ParserException("values contain null")) /\ UNCHANGED query_data
       ELSE /\ pc' = "parse_convert"
            /\ query_data' = <<>>
            /\ UNCHANGED <<result, error>>
    /\ UNCHANGED <<entry, target_datetime, target_response, web_json, first,
                   repeats>>

\* The conversion of one field of the loop over JSON_QUERY_TO_SRC.items().
Convert(query_key, value) ==
    IF query_key = "time" THEN ParseTime(value) ELSE ToFloat(value)

\* As AfterRead, with web_json.pop(src_key) in the place of web_json[src_key].
AfterReadPop(json, src_key) ==
    [json EXCEPT !.d = [k \in DOMAIN json.d \ {src_key} |-> json.d[k]]]

\* The mapping parse_json leaves behind after it read web_json[src_key].
AfterRead(json, src_key) == json

\* One iteration of the loop, or the exception that ends it.
ParseConvert ==
    /\ pc = "parse_convert"
    /\ LET i == Cardinality(DOMAIN query_data) + 1
           query_key == QueryKeys[i]
           src_key == JSON_QUERY_TO_SRC[query_key]
           conv == Convert(query_key, web_json.d[src_key])
       IN  /\ trace' = Append(trace, query_key)
           /\ web_json' = AfterRead(web_json, src_key)
           /\ IF conv.ok
              THEN /\ query_data' = query_data @@ (query_key :> conv.v)
                   /\ pc' = IF i = Len(QueryKeys) THEN "parse_return"
                            ELSE "parse_convert"
                   /\ UNCHANGED <<result, error>>
              ELSE Raise(Exception(conv.err)) /\ UNCHANGED query_data
    /\ UNCHANGED <<entry, target_datetime, target_response, first, repeats>>

\* return query_data, to the caller or into query.
ParseReturn ==
    /\ pc = "parse_return"
    /\ IF entry = "parse_json"
       THEN ReturnValue(query_data)
       ELSE pc' = "query_return" /\ UNCHANGED <<result, error>>
    /\ UNCHANGED <<entry, target_datetime, target_response, web_json,
                   query_data, trace, first, repeats>>

\* return query_result, to the caller or into the fetch function.
QueryReturn ==
    /\ pc = "query_return"
    /\ IF entry = "query"
       THEN ReturnValue(query_data)
       ELSE /\ pc' = IF entry = "fetch_production" THEN "production_unknown"
                     ELSE "consumption_data"
            /\ UNCHANGED <<result, error>>
    /\ UNCHANGED <<entry, target_datetime, target_response, web_json,
                   query_data, trace, first, repeats>>

\* round(consumptionMW - importMW - solarMW - windMW, 2)
UnknownMW(q) ==
    Float(Round(q["consumptionMW"].f - q["importMW"].f - q["solarMW"].f
                    - q["windMW"].f))

\* query_data["unknownMW"] = round(..., 2)
ProductionUnknown ==
    /\ pc = "production_unknown"
    /\ query_data' = ("unknownMW" :> UnknownMW(query_data)) @@ query_data
    /\ pc' = "production_data"
    /\ UNCHANGED <<entry, target_datetime, target_response, web_json, result,
                   error, trace, first, repeats>>

\* dataset_production of fetch_production.
DatasetProduction(q) ==
    [unknown |-> q["unknownMW"], solar |-> q["solarMW"], wind |-> q["windMW"]]

\* data of fetch_production (zone_key at its default).
ProductionData(q) ==
    [zoneKey |-> "MN", datetime |-> q["time"],
     production |-> DatasetProduction(q), source |-> SOURCE]

ProductionReturn ==
    /\ pc = "production_data"
    /\ ReturnValue(ProductionData(query_data))
    /\ UNCHANGED <<entry, target_datetime, target_response, web_json,
                   query_data, trace, first, repeats>>

\* data of fetch_consumption (zone_key at its default).
ConsumptionData(q) ==
    [zoneKey |-> "MN", datetime |-> q["time"],
     consumption |-> q["consumptionMW"], source |-> SOURCE]

ConsumptionReturn ==
    /\ pc = "consumption_data"
    /\ ReturnValue(ConsumptionData(query_data))
    /\ UNCHANGED <<entry, target_datetime, target_response, web_json,
                   query_data, trace, first, repeats>>

\* The caller took the outcome; the frames and their locals are gone.
Finish ==
    /\ pc = "done"
    /\ pc' = "idle"
    /\ entry' = "none"
    /\ target_datetime' = None
    /\ target_response' = Unset
    /\ web_json' = Unset
    /\ query_data' = Unset
    /\ result' = Unset
    /\ error' = Unset
    /\ trace' = <<>>
    /\ first' = Unset
    /\ repeats' = 0

Next ==
    \/ CallParse
    \/ CallParseAgain
    \/ CallQuery
    \/ CallFetch
    \/ FetchCheckTarget
    \/ SessionGet
    \/ QueryCheckOk
    \/ QueryLoads
    \/ ParseCheckKeys
    \/ ParseCheckNull
    \/ ParseConvert
    \/ ParseReturn
    \/ QueryReturn
    \/ ProductionUnknown
    \/ ProductionReturn
    \/ ConsumptionReturn
    \/ Finish

Spec == Init /\ [][Next]_vars

---------------------------------------------------------------------------
(* The vocabulary of the claims.                                           *)

\* The error kinds of the specification, as the exceptions MN.py raises.
FetchError == ParserException("Data request did not succeed")
KeyMismatch == ParserException("keys do not match expected keys")
NullValue == ParserException("values contain null")
SchemaErrors == {KeyMismatch, NullValue}
UnsupportedError == Exception("NotImplementedError")
DeclaredErrors == {FetchError, UnsupportedError} \cup SchemaErrors

FetchFunctions == {"fetch_production", "fetch_consumption"}
Done == pc = "done"
Ran(event) == \E i \in 1..Len(trace) : trace[i] = event
Gets == Cardinality({i \in 1..Len(trace) : trace[i] = "session.get"})
IsPayload == web_json.t = "dict"

\* A payload that misses an expected key, has another key, or holds a null.
Deviates(d) ==
    \/ \E k \in ExpectedKeys : k \notin DOMAIN d
    \/ \E k \in DOMAIN d : k \notin ExpectedKeys
    \/ \E k \in DOMAIN d : d[k] = None

\* w + n/d in fixed point.
Decimal(w, n, d) == w * Scale + (n * Scale) \div d

\* The numeric strings of the inputs and the numbers they denote.
NumericStrings ==
    {<<S("869.5"), Decimal(869, 5, 10)>>,
     <<S("0"), 0>>,
     <<S("42.25"), Decimal(42, 25, 100)>>,
     <<S("119.0625"), Decimal(119, 625, 10000)>>,
     <<S("-3.125"), 0 - Decimal(3, 125, 1000)>>,
     <<S(" 17"), Decimal(17, 0, 1)>>}

IsNumeric(v) == v.t = "num" \/ \E p \in NumericStrings : p[1] = v
NumberOf(v) ==
    IF v.t = "num" THEN v.n ELSE (CHOOSE p \in NumericStrings : p[1] = v)[2]

\* The timestamp strings of the inputs and the moments they denote.
Timestamps ==
    {<<S("2023-06-27 18:00:00"),
       [t |-> "datetime", year |-> 2023, month |-> 6, day |-> 27,
        hour |-> 18, minute |-> 0, second |-> 0,
        tzinfo |-> "Asia/Ulaanbaatar"]>>}

IsTimestamp(v) == \E p \in Timestamps : p[1] = v
MomentOf(v) == (CHOOSE p \in Timestamps : p[1] = v)[2]

\* The wire contract: the six keys, a timestamp, numbers or numeric strings.
Valid(d) ==
    /\ DOMAIN d = {"date", "syssum", "sumnar", "sums", "energyimport", "t"}
    /\ IsTimestamp(d["date"])
    /\ \A k \in DOMAIN d \ {"date"} : IsNumeric(d[k])

\* The reading a valid payload stands for.
ReadingOf(d) ==
    [time |-> MomentOf(d["date"]),
     consumptionMW |-> Float(NumberOf(d["syssum"])),
     solarMW |-> Float(NumberOf(d["sumnar"])),
     windMW |-> Float(NumberOf(d["sums"])),
     importMW |-> Float(NumberOf(d["energyimport"])),
     temperatureC |-> Float(NumberOf(d["t"]))]

\* consumption - import - solar - wind of a payload, before rounding.
Residual(d) ==
    NumberOf(d["syssum"]) - NumberOf(d["energyimport"])
        - NumberOf(d["sumnar"]) - NumberOf(d["sums"])

\* A record with every field of its kind.
Complete(r) ==
    CASE entry \in {"parse_json", "query"} ->
            DOMAIN r = {"time", "consumptionMW", "solarMW", "windMW",
                        "importMW", "temperatureC"}
      [] entry = "fetch_production" ->
            /\ DOMAIN r = {"zoneKey", "datetime", "production", "source"}
            /\ DOMAIN r.production = {"unknown", "solar", "wind"}
      [] entry = "fetch_consumption" ->
            DOMAIN r = {"zoneKey", "datetime", "consumption", "source"}
      [] OTHER -> FALSE

---------------------------------------------------------------------------
(* The claims.                                                             *)

\* C1: a payload that misses an expected key, carries a key outside the
\* expected set or holds a null never yields a reading: parse_json converts
\* nothing, returns nothing and ends with a SchemaError.
C1_DeviationIsSchemaError ==
    (IsPayload /\ Deviates(web_json.d)) =>
        /\ query_data = Unset
        /\ result = Unset
        /\ pc \in {"parse_keys", "parse_null", "done"}
        /\ Done => error \in SchemaErrors

\* C1 happens: parse_json ended on a payload with the six keys and a null.
C1_Witness ==
    /\ Done
    /\ entry = "parse_json"
    /\ DOMAIN web_json.d = ExpectedKeys
    /\ web_json.d["t"] = None
    /\ error = NullValue

\* C2 as stated: a response whose status is not 2xx yields FetchError, and
\* neither json.loads nor parse_json runs on it.
C2_Non2xxIsFetchError ==
    (target_response # Unset /\ target_response.status_code \notin 200..299) =>
        /\ ~Ran("json.loads")
        /\ ~Ran("check_keys")
        /\ web_json = Unset
        /\ pc \in {"query_ok", "done"}
        /\ Done => (error = FetchError /\ result = Unset)

\* C2 amended: a response whose status is 400 or above yields FetchError,
\* and neither json.loads nor parse_json runs on it.
C2_ErrorStatusIsFetchError ==
    (target_response # Unset /\ target_response.status_code >= 400) =>
        /\ ~Ran("json.loads")
        /\ ~Ran("check_keys")
        /\ web_json = Unset
        /\ pc \in {"query_ok", "done"}
        /\ Done => (error = FetchError /\ result = Unset)

\* C2 happens: a 404 that carried a valid payload ended in FetchError.
C2_Witness ==
    /\ Done
    /\ target_response # Unset
    /\ target_response.status_code = 404
    /\ target_response.text.valid
    /\ target_response.text.json.t = "dict"
    /\ Valid(target_response.text.json.d)
    /\ error = FetchError

\* C3: fetch_production and fetch_consumption called with a target time
\* return nothing and end with UnsupportedError.
C3_TargetTimeIsUnsupported ==
    (entry \in FetchFunctions /\ target_datetime # None) =>
        /\ result = Unset
        /\ error \in {Unset, UnsupportedError}
        /\ Done => error = UnsupportedError

\* C3 happens: fetch_consumption with a target time ended.
C3_Witness ==
    /\ Done
    /\ entry = "fetch_consumption"
    /\ target_datetime # None
    /\ error = UnsupportedError

\* C4: on a valid payload parse_json raises nothing and returns the six
\* fields, the time as the moment the timestamp denotes and every other
\* field as the float of its source value.
C4_ValidPayloadParses ==
    (IsPayload /\ Valid(web_json.d)) =>
        /\ error = Unset
        /\ pc = "parse_return" => query_data = ReadingOf(web_json.d)
        /\ (Done /\ entry \in {"parse_json", "query"}) =>
              result = ReadingOf(web_json.d)

\* C4 happens: parse_json returned the reading of a payload that mixes
\* numbers, a signed numeric string and a padded one.
C4_Witness ==
    /\ Done
    /\ entry = "parse_json"
    /\ Valid(web_json.d)
    /\ web_json.d["sumnar"].t = "num"
    /\ web_json.d["energyimport"] = S("-3.125")
    /\ web_json.d["t"] = S(" 17")
    /\ result # Unset

\* C5: a record fetch_production returns holds exactly unknown, solar and
\* wind; solar and wind are the payload's, unknown is a multiple of 0.01
\* within 0.005 of consumption - import - solar - wind, and datetime is the
\* payload's time.
C5_ProductionRecord ==
    (Done /\ entry = "fetch_production" /\ result # Unset) =>
        LET d == web_json.d
            p == result.production
        IN  /\ DOMAIN p = {"unknown", "solar", "wind"}
            /\ p.solar = Float(NumberOf(d["sumnar"]))
            /\ p.wind = Float(NumberOf(d["sums"]))
            /\ p.unknown.t = "float"
            /\ p.unknown.f % Hundredth = 0
            /\ 2 * Abs(Residual(d) - p.unknown.f) <= Hundredth
            /\ result.datetime = MomentOf(d["date"])

\* C5 happens: fetch_production returned a record whose unknown had to be
\* rounded up.
C5_Witness ==
    /\ Done
    /\ entry = "fetch_production"
    /\ result # Unset
    /\ 2 * (Residual(web_json.d) % Hundredth) > Hundredth
    /\ result.production.unknown.f > Residual(web_json.d)

\* C6 as stated: a call that ended returned a complete record or raised one
\* of FetchError, SchemaError and UnsupportedError.
C6_RecordOrDeclaredError ==
    Done => \/ error = Unset /\ result # Unset /\ Complete(result)
            \/ result = Unset /\ error \in DeclaredErrors

\* The first half of C6, which holds: every conversion comes after both
\* validations, and a call that ended returned a complete record or raised.
C6_ValidationBeforeConversion ==
    /\ \A i \in 1..Len(trace) :
          trace[i] \in DOMAIN JSON_QUERY_TO_SRC =>
              /\ \E j \in 1..(i - 1) : trace[j] = "check_keys"
              /\ \E j \in 1..(i - 1) : trace[j] = "check_null"
    /\ Done => \/ error = Unset /\ result # Unset /\ Complete(result)
               \/ result = Unset /\ error # Unset

\* C7: parse_json leaves the mapping it was passed as it was, and a second
\* call on the same mapping ends as the first did.
C7_ParseIsIdempotent ==
    entry = "parse_json" =>
        /\ web_json = first.passed
        /\ (Done /\ repeats > 0) =>
              first.outcome = [result |-> result, error |-> error]

\* C7 happens: a second call on the same mapping returned a reading.
C7_Witness ==
    /\ Done
    /\ entry = "parse_json"
    /\ repeats > 0
    /\ result # Unset
    /\ first.outcome.result = result

\* C8: the key check runs first and the null check second; a payload with a
\* wrong key set is rejected by the key check even when it holds a null, and
\* the null check is reached with the expected key set only.
C8_KeysBeforeNulls ==
    /\ \A i \in 1..Len(trace) :
          trace[i] = "check_null" => (i > 1 /\ trace[i - 1] = "check_keys")
    /\ pc = "parse_null" => DOMAIN web_json.d = ExpectedKeys
    /\ (Done /\ IsPayload /\ DOMAIN web_json.d # ExpectedKeys) =>
          (error = KeyMismatch /\ ~Ran("check_null"))
    /\ (Done /\ error = NullValue) => DOMAIN web_json.d = ExpectedKeys

\* C8 happens: a payload with an extra key and a null was rejected for its
\* keys.
C8_Witness ==
    /\ Done
    /\ IsPayload
    /\ ExpectedKeys \subseteq DOMAIN web_json.d
    /\ "extra" \in DOMAIN web_json.d
    /\ web_json.d["syssum"] = None
    /\ error = KeyMismatch

\* C9: a call sends at most one GET, to the fixed URL, and an exception ends
\* the call where it is raised.
C9_NoRetry ==
    /\ Gets <= 1
    /\ target_response # Unset => target_response.url = NDC_GENERATION
    /\ error # Unset => Done
    /\ (Done /\ error \in {FetchError} \cup SchemaErrors) =>
          Gets = (IF entry = "parse_json" THEN 0 ELSE 1)

\* C9 happens: a call ended in FetchError after its one GET.
C9_Witness ==
    /\ Done
    /\ entry = "fetch_production"
    /\ error = FetchError
    /\ Gets = 1

\* C10: with a target time the fetch functions fail before query runs: no
\* GET is sent, nothing is decoded and nothing is validated.
C10_TargetCheckBeforeIO ==
    (entry \in FetchFunctions /\ target_datetime # None) =>
        /\ trace = <<>>
        /\ target_response = Unset
        /\ web_json = Unset
        /\ query_data = Unset
        /\ pc \in {"fetch_target", "done"}

\* C10 happens: fetch_production with a target time ended without a GET.
C10_Witness ==
    /\ Done
    /\ entry = "fetch_production"
    /\ target_datetime # None
    /\ error = UnsupportedError
    /\ Gets = 0

===========================================================================
